---- MODULE Spec2Model ----
(***************************************************************************)
(* Session and response pipeline of the Stink WhatsApp bot (src/index.js). *)
(*                                                                         *)
(* Texts are TLA+ strings handled character by character (SubSeq, Len and  *)
(* \o work on strings in TLC); the emoji of the JavaScript literals are    *)
(* written as ASCII names.  Every "await" of the message handler is one    *)
(* suspension point: the code between two awaits is one atomic step, and   *)
(* handlers of different inbound events interleave at these points, as     *)
(* they do on the Node.js event loop.                                      *)
(***************************************************************************)
EXTENDS Integers, Sequences, FiniteSets, TLC

\* ---------------------------------------------------------------- bounds
\* Number of inbound events delivered in one behaviour.
MaxEvents == 3
\* Number of failures (store, transport, backend) injected in one behaviour.
MaxFail == 1
\* Number of runs of the check-in job in one behaviour.
MaxRuns == 2
\* Number of full chunks of the longest text given to sendLongMessage.
MaxChunks == 3

\* --------------------------------------------------------- configuration
MAX_WORDS == 200
MESSAGE_CHUNK_LENGTH == 4000
CHAT_HISTORY_LIMIT == 5

EMOJI_RESPONSES ==
  [ happy   |-> <<":blush:", ":smile:", ":star:", ":tada:", ":hug:">>,
    sad     |-> <<":hug:", ":blueheart:", ":hugging:", ":coffee:", ":chocolate:">>,
    neutral |-> <<":eyes:", ":thinking:", ":thought:", ":speaking:", ":ear:">> ]

COMMON_NAMES ==
  [ male   |-> <<"john", "michael", "david", "james", "robert">>,
    female |-> <<"mary", "jennifer", "linda", "patricia", "elizabeth">> ]

AGE_BRACKETS ==
  << [bracket |-> "teen",       min |-> 13, max |-> 19],
     [bracket |-> "youngAdult", min |-> 20, max |-> 29],
     [bracket |-> "adult",      min |-> 30, max |-> 45],
     [bracket |-> "middleAged", min |-> 46, max |-> 65],
     [bracket |-> "senior",     min |-> 66, max |-> 100] >>

\* The JavaScript values null / undefined where a string is expected, and a
\* missing object (no map entry, no table row).
Null == "<null>"
Undefined == [undefined |-> TRUE]

\* ------------------------------------------------------- string helpers
Range(f) == { f[x] : x \in DOMAIN f }

charAt(s, i) == SubSeq(s, i, i)

UpperCase == "ABCDEFGHIJKLMNOPQRSTUVWXYZ"
LowerCase == "abcdefghijklmnopqrstuvwxyz"
Digits    == "0123456789"

\* Position of the one-character string c in the string s, 0 when absent.
RECURSIVE indexFrom(_, _, _)
indexFrom(s, c, i) ==
  IF i > Len(s) THEN 0 ELSE IF charAt(s, i) = c THEN i ELSE indexFrom(s, c, i + 1)

indexOf(s, c) == indexFrom(s, c, 1)

lowerChar(c) == IF indexOf(UpperCase, c) > 0 THEN charAt(LowerCase, indexOf(UpperCase, c)) ELSE c

RECURSIVE toLowerCase(_)
toLowerCase(s) ==
  IF s = "" THEN "" ELSE lowerChar(charAt(s, 1)) \o toLowerCase(SubSeq(s, 2, Len(s)))

RECURSIVE trimStart(_)
trimStart(s) == IF s # "" /\ charAt(s, 1) = " " THEN trimStart(SubSeq(s, 2, Len(s))) ELSE s

RECURSIVE trimEnd(_)
trimEnd(s) == IF s # "" /\ charAt(s, Len(s)) = " " THEN trimEnd(SubSeq(s, 1, Len(s) - 1)) ELSE s

trim(s) == trimEnd(trimStart(s))

includes(s, t) == \E i \in 1..(Len(s) - Len(t) + 1) : SubSeq(s, i, i + Len(t) - 1) = t

\* String.prototype.split(' '): the pieces between single spaces, empty ones kept.
RECURSIVE split(_)
split(s) ==
  LET p == indexOf(s, " ")
  IN  IF p = 0 THEN <<s>> ELSE <<SubSeq(s, 1, p - 1)>> \o split(SubSeq(s, p + 1, Len(s)))

RECURSIVE join(_)
join(ws) ==
  IF ws = <<>> THEN ""
  ELSE IF Len(ws) = 1 THEN ws[1]
  ELSE ws[1] \o " " \o join(Tail(ws))

isDigit(c) == indexOf(Digits, c) > 0
isWordChar(c) == isDigit(c) \/ indexOf(UpperCase, c) > 0 \/ indexOf(LowerCase, c) > 0 \/ c = "_"
digitValue(c) == indexOf(Digits, c) - 1

\* ----------------------------------------------------- 5. core functions
\* Word scores of the sentiment lexicon (AFINN) for the words of the sample texts.
AFINN == [ sad |-> -2, happy |-> 3, love |-> 3, awful |-> -3 ]

RECURSIVE sumScores(_)
sumScores(ws) ==
  IF ws = <<>> THEN 0
  ELSE (IF ws[1] \in DOMAIN AFINN THEN AFINN[ws[1]] ELSE 0) + sumScores(Tail(ws))

sentimentScore(message) == sumScores(split(toLowerCase(message)))

detectMood(message) ==
  LET score == sentimentScore(message)
  IN  IF score > 1 THEN "happy" ELSE IF score < -1 THEN "sad" ELSE "neutral"

\* k is the index Math.floor(Math.random() * emojis.length), 0-based.
enhanceWithEmoji(text, mood, k) ==
  LET emojis == IF mood \in DOMAIN EMOJI_RESPONSES THEN EMOJI_RESPONSES[mood]
                ELSE EMOJI_RESPONSES.neutral
  IN  text \o " " \o emojis[k + 1]

limitResponseLength(response) ==
  LET words == split(response)
  IN  IF Len(words) > MAX_WORDS
      THEN join(SubSeq(words, 1, MAX_WORDS)) \o "..."
      ELSE response

\* Mutant of chunkAt: the end of the chunk is off by one, substring(i, i + 4000 + 1).
chunkAtOverlap(message, i) ==
  SubSeq(message, i + 1, IF i + MESSAGE_CHUNK_LENGTH + 1 < Len(message)
                         THEN i + MESSAGE_CHUNK_LENGTH + 1 ELSE Len(message))

\* The chunk sendLongMessage sends at offset i (0-based): message.substring(i, i + 4000).
chunkAt(message, i) ==
  SubSeq(message, i + 1, IF i + MESSAGE_CHUNK_LENGTH < Len(message)
                         THEN i + MESSAGE_CHUNK_LENGTH ELSE Len(message))

detectGenderFromName(name) ==
  LET lowerName == toLowerCase(name)
  IN  IF lowerName \in Range(COMMON_NAMES.male) THEN "male"
      ELSE IF lowerName \in Range(COMMON_NAMES.female) THEN "female"
      ELSE "unknown"

\* Start positions of the matches of /\b(\d{2})\b/ in message.
ageMatches(message) ==
  { i \in 1..(Len(message) - 1) :
      /\ isDigit(charAt(message, i))
      /\ isDigit(charAt(message, i + 1))
      /\ (i = 1 \/ ~isWordChar(charAt(message, i - 1)))
      /\ (i + 1 = Len(message) \/ ~isWordChar(charAt(message, i + 2))) }

estimateAgeBracket(message) ==
  LET ms == ageMatches(message)
  IN  IF ms = {} THEN "unknown"
      ELSE LET i   == CHOOSE m \in ms : \A n \in ms : m <= n
               age == 10 * digitValue(charAt(message, i)) + digitValue(charAt(message, i + 1))
               hit == { b \in 1..Len(AGE_BRACKETS) :
                          age >= AGE_BRACKETS[b].min /\ age <= AGE_BRACKETS[b].max }
           IN  IF hit = {} THEN "unknown"
               ELSE AGE_BRACKETS[CHOOSE b \in hit : \A c \in hit : b <= c].bracket

\* Mutant of resolveGender: else-if chain, the first keyword found wins.
resolveGenderFirstMatch(lowerMessage) ==
  IF includes(lowerMessage, "boy") THEN "male"
  ELSE IF includes(lowerMessage, "girl") THEN "female"
  ELSE IF includes(lowerMessage, "skip") THEN "prefer not to say"
  ELSE "other"

\* Gender keywords of the awaiting_gender branch: three independent ifs, each
\* overwriting the result of the one before.
resolveGender(lowerMessage) ==
  LET g0 == "other"
      g1 == IF includes(lowerMessage, "boy") THEN "male" ELSE g0
      g2 == IF includes(lowerMessage, "girl") THEN "female" ELSE g1
      g3 == IF includes(lowerMessage, "skip") THEN "prefer not to say" ELSE g2
  IN  g3

\* ------------------------------------------------------ fixed messages
GREETING == "Heyyy... I'm StinkStink, but you can call me Stink. So what's your name?"
ackMessage(userName) == "Nice to meet you, " \o userName \o "! What's on your mind?"
askMessage(userName) == "Is " \o userName \o " a boy's or girl's name? (or \"skip\")"
PROMPT == "Cool cool, soooo....how are you feeling today? Anything crazy happened lately?"
APOLOGY == "Oops, my circuits glitched! Try again?"
AI_FALLBACK == "My brain's being extra today... ask me again?"
suggestionMessage(suggestion) == "Suggestion: " \o suggestion

\* ------------------------------------------------------------- inputs
\* Sender identifiers: two direct chats and one group chat.
Users  == {"1@c.us", "2@c.us"}
Groups == {"9@g.us"}
Ids    == Users \cup Groups

\* Sample message bodies: the trigger phrase, a listed name, and a sad text
\* with the three gender keywords; any of them but John is an unlisted name.
Bodies == { "Hey Stink", " John", "sad boy girl skip" }

\* Sampled outcomes of Math.floor(Math.random() * emojis.length): the first and
\* the last emoji of the list.
emojiIndexes == {0, Len(EMOJI_RESPONSES.neutral) - 1}

\* Texts the generative backend returns when the call succeeds.
AIReplies == { " hang in there " }

Handlers == {"h1", "h2"}

\* -------------------------------------------------------------- state
VARIABLES
  userStates,     \* userStates[id]: Null (no entry), awaiting_name, awaiting_gender, active
  userDataCache,  \* userDataCache[id]: Undefined (no entry) or [name |-> ...]
  users,          \* table users: users[phone_number] is Undefined (no row) or the row
  chat_history,   \* table chat_history, in created_at order
  suggestions,    \* table suggestions, in created_at order
  turns,          \* turns[h]: the invocation of the message handler running in slot h
  nEvents,        \* inbound events delivered so far
  nFail,          \* failures injected so far
  job             \* the run of the check-in job (sendDailyCheckIn) and its position

vars == <<userStates, userDataCache, users, chat_history, suggestions, turns, nEvents, nFail, job>>

idleTurn ==
  [ pc |-> "idle", msg |-> Undefined, userMessage |-> Null, lowerMessage |-> Null,
    entry |-> Null, data |-> Undefined, mood |-> Null, history |-> <<>>,
    finalReply |-> Null, i |-> 0, suggestion |-> Null, trace |-> <<>>, solo |-> TRUE ]

\* No run of the check-in job: runs counts the runs started so far.
idleJob ==
  [ pc |-> "idle", rows |-> <<>>, n |-> 0, lastMood |-> Null, prompt |-> Null,
    message |-> Null, trace |-> <<>>, runs |-> 0 ]

Init ==
  /\ userStates = [id \in Ids |-> Null]
  /\ userDataCache = [id \in Ids |-> Undefined]
  /\ users = [id \in Ids |-> Undefined]
  /\ chat_history = <<>>
  /\ suggestions = <<>>
  /\ turns = [h \in Handlers |-> idleTurn]
  /\ nEvents = 0
  /\ nFail = 0
  /\ job = idleJob

\* One step of a handler: what it did is appended to the trace of its turn.
Ev(op, arg, ok) == [op |-> op, arg |-> arg, ok |-> ok]
\* client.sendMessage(to, text), resolved (ok) or rejected.
Sent(to, text, ok) == [op |-> "sendMessage", to |-> to, arg |-> text, ok |-> ok]
step(t, pc, ev) == [t EXCEPT !.pc = pc, !.trace = Append(@, ev)]

inFlight(t) == t.pc \notin {"idle", "done"}

\* A finished invocation returns before anything else happens: Return changes
\* nothing but the slot, so no behaviour of the program is lost by taking it first.
quiet == \A k \in Handlers : turns[k].pc # "done"

canFail == nFail < MaxFail
noFail  == quiet /\ nFail' = nFail
oneFail == quiet /\ canFail /\ nFail' = nFail + 1

\* ------------------------------------------------ 6. database operations
\* INSERT ... ON CONFLICT (phone_number) DO UPDATE SET x = COALESCE($n, users.x)
coalesce(a, b) == IF a # Null THEN a ELSE b

\* Mutant of saveUserProfileRow: DO UPDATE SET name = $2, gender = $3,
\* age_bracket = $4, without COALESCE.
saveUserProfileRowOverwrite(old, data) ==
  [name |-> data.name, gender |-> data.gender, age_bracket |-> data.ageBracket,
   activated |-> TRUE]

saveUserProfileRow(old, data) ==
  IF old = Undefined
  THEN [name |-> data.name, gender |-> data.gender, age_bracket |-> data.ageBracket,
        activated |-> TRUE]
  ELSE [old EXCEPT !.name = coalesce(data.name, old.name),
                   !.gender = coalesce(data.gender, old.gender),
                   !.age_bracket = coalesce(data.ageBracket, old.age_bracket)]

storeMessageRow(phoneNumber, message, isBot, mood) ==
  [phone_number |-> phoneNumber, message |-> message, is_bot |-> isBot, mood |-> mood]

saveSuggestionRow(phoneNumber, mood, suggestion) ==
  [phone_number |-> phoneNumber, mood |-> mood, suggestion |-> suggestion]

\* SELECT ... WHERE phone_number = $1 ORDER BY created_at DESC LIMIT 5, reversed.
getChatHistory(table, phoneNumber) ==
  LET rows == SelectSeq(table, LAMBDA r : r.phone_number = phoneNumber)
      n    == Len(rows)
      kept == SubSeq(rows, IF n > CHAT_HISTORY_LIMIT THEN n - CHAT_HISTORY_LIMIT + 1 ELSE 1, n)
  IN  [k \in 1..Len(kept) |-> [message |-> kept[k].message, is_bot |-> kept[k].is_bot,
                               mood |-> kept[k].mood]]

\* --------------------------------------------------- 9. message handler
isFiltered(msg) == msg.isStatus \/ includes(msg.from, "@g.us")
userMessageOf(msg) == trim(msg.body)
lowerMessageOf(msg) == toLowerCase(userMessageOf(msg))
isTrigger(msg) == includes(lowerMessageOf(msg), "hey stink")

\* Mutant of catchBlock: the failure is logged and no apology is sent.
catchBlockSilent(t, ev) == step(t, "done", ev)

\* The catch block of the handler: the apology is sent to message.from.
catchBlock(t, ev) == step(t, "apology_send", ev)

\* Mutant of setPendingName: the assignment to userDataCache is missing.
setPendingNameDropped(cache, phoneNumber, userName) == cache

\* userDataCache[phoneNumber] = { name: userName }
setPendingName(cache, phoneNumber, userName) ==
  [cache EXCEPT ![phoneNumber] = [name |-> userName]]

\* Mutant of genderProfile: the spread of userDataCache[phoneNumber] is missing.
genderProfileNoName(cache, phoneNumber, lowerMessage) ==
  [ name |-> Null,
    gender |-> resolveGender(lowerMessage),
    ageBracket |-> estimateAgeBracket(lowerMessage) ]

\* { ...userDataCache[phoneNumber], gender, ageBracket }
genderProfile(cache, phoneNumber, lowerMessage) ==
  [ name |-> IF cache[phoneNumber] = Undefined THEN Null ELSE cache[phoneNumber].name,
    gender |-> resolveGender(lowerMessage),
    ageBracket |-> estimateAgeBracket(lowerMessage) ]

\* A new invocation in slot h for an event that is not filtered, with the
\* locals userMessage and lowerMessage and the session state it finds (entry);
\* it is solo while no other invocation for the same sender is in flight.
newTurn(h, msg) ==
  [ idleTurn EXCEPT !.msg = msg, !.userMessage = userMessageOf(msg),
      !.lowerMessage = lowerMessageOf(msg), !.entry = userStates[msg.from],
      !.solo = \A k \in Handlers \ {h} : ~(inFlight(turns[k]) /\ turns[k].msg.from = msg.from) ]

\* turns with slot h replaced by t; the in-flight invocations of the same
\* sender are no longer solo when h has just been started.
withTurn(h, t, started) ==
  [ k \in Handlers |->
      IF k = h THEN t
      ELSE IF started /\ inFlight(turns[k]) /\ turns[k].msg.from = t.msg.from
           THEN [turns[k] EXCEPT !.solo = FALSE]
           ELSE turns[k] ]

\* An inbound event starts an invocation of the handler, in the first free slot.
deliver(h, msg) ==
  /\ quiet
  /\ nEvents < MaxEvents
  /\ turns[h].pc = "idle"
  /\ h = CHOOSE k \in Handlers : turns[k].pc = "idle"
  /\ nEvents' = nEvents + 1

\* Status messages and group chats are skipped.
ReceiveFiltered(h, msg) ==
  /\ deliver(h, msg)
  /\ isFiltered(msg)
  /\ turns' = withTurn(h, [idleTurn EXCEPT !.msg = msg, !.pc = "done"], FALSE)
  /\ UNCHANGED <<userStates, userDataCache, users, chat_history, suggestions, nFail, job>>

\* Mutant of ReceiveTrigger: the test !userStates[phoneNumber] is missing and
\* the trigger phrase starts the onboarding again.
ReceiveTriggerAnyState(h, msg) ==
  /\ deliver(h, msg)
  /\ ~isFiltered(msg)
  /\ isTrigger(msg)
  /\ userStates' = [userStates EXCEPT ![msg.from] = "awaiting_name"]
  /\ turns' = withTurn(h, step(newTurn(h, msg), "greeting_send",
                               Ev("userStates", "awaiting_name", TRUE)), TRUE)
  /\ UNCHANGED <<userDataCache, users, chat_history, suggestions, nFail, job>>

\* "hey stink" from a sender without session entry: the greeting is sent.
ReceiveTrigger(h, msg) ==
  /\ deliver(h, msg)
  /\ userStates[msg.from] = Null
  /\ ~isFiltered(msg)
  /\ isTrigger(msg)
  /\ userStates' = [userStates EXCEPT ![msg.from] = "awaiting_name"]
  /\ turns' = withTurn(h, step(newTurn(h, msg), "greeting_send",
                               Ev("userStates", "awaiting_name", TRUE)), TRUE)
  /\ UNCHANGED <<userDataCache, users, chat_history, suggestions, nFail, job>>

\* Mutant of ReceiveIgnored: the trigger phrase is not required to start the
\* onboarding.
ReceiveIgnoredGreets(h, msg) ==
  /\ deliver(h, msg)
  /\ userStates[msg.from] = Null
  /\ ~isFiltered(msg)
  /\ ~isTrigger(msg)
  /\ userStates' = [userStates EXCEPT ![msg.from] = "awaiting_name"]
  /\ turns' = withTurn(h, step(newTurn(h, msg), "greeting_send",
                               Ev("userStates", "awaiting_name", TRUE)), TRUE)
  /\ UNCHANGED <<userDataCache, users, chat_history, suggestions, nFail, job>>

\* No session entry and no trigger phrase: no branch of the handler is taken.
ReceiveIgnored(h, msg) ==
  /\ deliver(h, msg)
  /\ userStates[msg.from] = Null
  /\ ~isFiltered(msg)
  /\ ~isTrigger(msg)
  /\ turns' = withTurn(h, [newTurn(h, msg) EXCEPT !.pc = "done"], TRUE)
  /\ UNCHANGED <<userStates, userDataCache, users, chat_history, suggestions, nFail, job>>

\* Mutant of ReceiveName: the profile is saved whatever the detected gender.
ReceiveNameSavesUnknown(h, msg) ==
  /\ deliver(h, msg)
  /\ userStates[msg.from] = "awaiting_name"
  /\ ~isFiltered(msg)
  /\ LET userName == trim(userMessageOf(msg))
         gender   == detectGenderFromName(userName)
         t0       == step(newTurn(h, msg), "idle", Ev("userDataCache", userName, TRUE))
     IN  /\ userDataCache' = setPendingName(userDataCache, msg.from, userName)
         /\ turns' = withTurn(h,
               [t0 EXCEPT !.pc = "name_save",
                          !.data = [name |-> userName, gender |-> gender,
                                    ageBracket |-> estimateAgeBracket(userMessageOf(msg))]],
               TRUE)
  /\ UNCHANGED <<userStates, users, chat_history, suggestions, nFail, job>>

\* awaiting_name: the text is the name; a listed name goes to saveUserProfile,
\* any other to the gender question.
ReceiveName(h, msg) ==
  /\ deliver(h, msg)
  /\ userStates[msg.from] = "awaiting_name"
  /\ ~isFiltered(msg)
  /\ LET userName == trim(userMessageOf(msg))
         gender   == detectGenderFromName(userName)
         t0       == step(newTurn(h, msg), "idle", Ev("userDataCache", userName, TRUE))
     IN  /\ userDataCache' = setPendingName(userDataCache, msg.from, userName)
         /\ IF gender # "unknown"
            THEN /\ turns' = withTurn(h,
                       [t0 EXCEPT !.pc = "name_save",
                                  !.data = [name |-> userName, gender |-> gender,
                                            ageBracket |-> estimateAgeBracket(userMessageOf(msg))]],
                       TRUE)
                 /\ UNCHANGED userStates
            ELSE /\ userStates' = [userStates EXCEPT ![msg.from] = "awaiting_gender"]
                 /\ turns' = withTurn(h, step(t0, "ask_send",
                                              Ev("userStates", "awaiting_gender", TRUE)), TRUE)
  /\ UNCHANGED <<users, chat_history, suggestions, nFail, job>>

\* awaiting_gender: the gender is resolved from the text and the profile saved.
ReceiveGender(h, msg) ==
  /\ deliver(h, msg)
  /\ userStates[msg.from] = "awaiting_gender"
  /\ ~isFiltered(msg)
  /\ turns' = withTurn(h,
        [newTurn(h, msg) EXCEPT !.pc = "gender_save",
                                !.data = genderProfile(userDataCache, msg.from, lowerMessageOf(msg))],
        TRUE)
  /\ UNCHANGED <<userStates, userDataCache, users, chat_history, suggestions, nFail, job>>

\* Mutant of ReceiveActive: the inbound message is not stored before the
\* history is read.
ReceiveActiveNoStore(h, msg) ==
  /\ deliver(h, msg)
  /\ userStates[msg.from] = "active"
  /\ ~isFiltered(msg)
  /\ turns' = withTurn(h,
        [newTurn(h, msg) EXCEPT !.pc = "history_read", !.mood = detectMood(userMessageOf(msg))],
        TRUE)
  /\ UNCHANGED <<userStates, userDataCache, users, chat_history, suggestions, nFail, job>>

\* active: the mood is detected and the inbound message is stored.
ReceiveActive(h, msg) ==
  /\ deliver(h, msg)
  /\ userStates[msg.from] = "active"
  /\ ~isFiltered(msg)
  /\ turns' = withTurn(h,
        [newTurn(h, msg) EXCEPT !.pc = "store_in", !.mood = detectMood(userMessageOf(msg))],
        TRUE)
  /\ UNCHANGED <<userStates, userDataCache, users, chat_history, suggestions, nFail, job>>

\* ---------------------------------------- resumptions of the awaits
others == <<userStates, userDataCache, users, chat_history, suggestions>>

\* await client.sendMessage(to, text) of the turn in slot h, suspended at pc:
\* resolved, the handler goes on at next; rejected, it goes to the catch block.
sendResolves(h, text, next) ==
  /\ noFail
  /\ turns' = withTurn(h, step(turns[h], next, Sent(turns[h].msg.from, text, TRUE)), FALSE)

sendRejects(h, text) ==
  /\ oneFail
  /\ turns' = withTurn(h, catchBlock(turns[h], Sent(turns[h].msg.from, text, FALSE)), FALSE)

\* Mutant of SendGreeting: the return after the greeting is missing and the
\* handler goes on into the awaiting_name branch with the same text.
SendGreetingNoReturn(h) ==
  /\ turns[h].pc = "greeting_send"
  /\ LET t        == turns[h]
         userName == trim(t.userMessage)
     IN  \/ /\ noFail
            /\ userDataCache' = setPendingName(userDataCache, t.msg.from, userName)
            /\ userStates' = [userStates EXCEPT ![t.msg.from] = "awaiting_gender"]
            /\ turns' = withTurn(h,
                 step(step(step(t, "ask_send", Sent(t.msg.from, GREETING, TRUE)), "ask_send",
                           Ev("userDataCache", userName, TRUE)), "ask_send",
                      Ev("userStates", "awaiting_gender", TRUE)), FALSE)
         \/ /\ sendRejects(h, GREETING)
            /\ UNCHANGED <<userStates, userDataCache>>
  /\ UNCHANGED <<users, chat_history, suggestions, nEvents, job>>

\* The greeting was sent: return.
SendGreeting(h) ==
  /\ turns[h].pc = "greeting_send"
  /\ \/ sendResolves(h, GREETING, "done")
     \/ sendRejects(h, GREETING)
  /\ UNCHANGED <<others, nEvents, job>>

\* Mutant of SaveNameProfile: a failed upsert is logged and swallowed, as
\* storeMessage does, and the acknowledgment is sent all the same.
SaveNameProfileSwallowed(h) ==
  /\ turns[h].pc = "name_save"
  /\ LET t == turns[h]
     IN  \/ /\ noFail
            /\ users' = [users EXCEPT ![t.msg.from] = saveUserProfileRow(@, t.data)]
            /\ turns' = withTurn(h, step(t, "ack_send", Ev("saveUserProfile", t.data.name, TRUE)), FALSE)
         \/ /\ oneFail
            /\ turns' = withTurn(h, step(t, "ack_send", Ev("saveUserProfile", t.data.name, FALSE)), FALSE)
            /\ UNCHANGED users
  /\ UNCHANGED <<userStates, userDataCache, chat_history, suggestions, nEvents, job>>

\* saveUserProfile of the awaiting_name branch; then the acknowledgment is sent.
SaveNameProfile(h) ==
  /\ turns[h].pc = "name_save"
  /\ LET t == turns[h]
     IN  \/ /\ noFail
            /\ users' = [users EXCEPT ![t.msg.from] = saveUserProfileRow(@, t.data)]
            /\ turns' = withTurn(h, step(t, "ack_send", Ev("saveUserProfile", t.data.name, TRUE)), FALSE)
         \/ /\ oneFail
            /\ turns' = withTurn(h, catchBlock(t, Ev("saveUserProfile", t.data.name, FALSE)), FALSE)
            /\ UNCHANGED users
  /\ UNCHANGED <<userStates, userDataCache, chat_history, suggestions, nEvents, job>>

\* The acknowledgment was sent: userStates[phoneNumber] = 'active'; return.
SendAck(h) ==
  /\ turns[h].pc = "ack_send"
  /\ LET t   == turns[h]
         ack == ackMessage(t.data.name)
     IN  \/ /\ noFail
            /\ userStates' = [userStates EXCEPT ![t.msg.from] = "active"]
            /\ turns' = withTurn(h,
                 step(step(t, "done", Sent(t.msg.from, ack, TRUE)), "done",
                      Ev("userStates", "active", TRUE)), FALSE)
         \/ /\ sendRejects(h, ack)
            /\ UNCHANGED userStates
  /\ UNCHANGED <<userDataCache, users, chat_history, suggestions, nEvents, job>>

\* The gender question was sent: return.
SendAsk(h) ==
  /\ turns[h].pc = "ask_send"
  /\ LET ask == askMessage(trim(turns[h].userMessage))
     IN  \/ sendResolves(h, ask, "done")
         \/ sendRejects(h, ask)
  /\ UNCHANGED <<others, nEvents, job>>

\* Mutant of SaveGenderProfile: a failed upsert sends the sender back to the
\* start of the onboarding.
SaveGenderProfileResets(h) ==
  /\ turns[h].pc = "gender_save"
  /\ LET t == turns[h]
     IN  \/ /\ noFail
            /\ users' = [users EXCEPT ![t.msg.from] = saveUserProfileRow(@, t.data)]
            /\ userStates' = [userStates EXCEPT ![t.msg.from] = "active"]
            /\ turns' = withTurn(h,
                 step(step(t, "prompt_send", Ev("saveUserProfile", t.data.name, TRUE)),
                      "prompt_send", Ev("userStates", "active", TRUE)), FALSE)
         \/ /\ oneFail
            /\ turns' = withTurn(h, catchBlock(t, Ev("saveUserProfile", t.data.name, FALSE)), FALSE)
            /\ userStates' = [userStates EXCEPT ![t.msg.from] = "awaiting_name"]
            /\ UNCHANGED users
  /\ UNCHANGED <<userDataCache, chat_history, suggestions, nEvents, job>>

\* Mutant of SaveGenderProfile: the session is set active before the upsert
\* is awaited, so it is active whether the upsert succeeds or not.
SaveGenderProfileActiveFirst(h) ==
  /\ turns[h].pc = "gender_save"
  /\ LET t == turns[h]
     IN  \/ /\ noFail
            /\ users' = [users EXCEPT ![t.msg.from] = saveUserProfileRow(@, t.data)]
            /\ userStates' = [userStates EXCEPT ![t.msg.from] = "active"]
            /\ turns' = withTurn(h,
                 step(step(t, "prompt_send", Ev("saveUserProfile", t.data.name, TRUE)),
                      "prompt_send", Ev("userStates", "active", TRUE)), FALSE)
         \/ /\ oneFail
            /\ userStates' = [userStates EXCEPT ![t.msg.from] = "active"]
            /\ turns' = withTurn(h, catchBlock(t, Ev("saveUserProfile", t.data.name, FALSE)), FALSE)
            /\ UNCHANGED users
  /\ UNCHANGED <<userDataCache, chat_history, suggestions, nEvents, job>>

\* saveUserProfile of the awaiting_gender branch; then
\* userStates[phoneNumber] = 'active' and the steady-state prompt is sent.
SaveGenderProfile(h) ==
  /\ turns[h].pc = "gender_save"
  /\ LET t == turns[h]
     IN  \/ /\ noFail
            /\ users' = [users EXCEPT ![t.msg.from] = saveUserProfileRow(@, t.data)]
            /\ userStates' = [userStates EXCEPT ![t.msg.from] = "active"]
            /\ turns' = withTurn(h,
                 step(step(t, "prompt_send", Ev("saveUserProfile", t.data.name, TRUE)),
                      "prompt_send", Ev("userStates", "active", TRUE)), FALSE)
         \/ /\ oneFail
            /\ turns' = withTurn(h, catchBlock(t, Ev("saveUserProfile", t.data.name, FALSE)), FALSE)
            /\ UNCHANGED <<users, userStates>>
  /\ UNCHANGED <<userDataCache, chat_history, suggestions, nEvents, job>>

\* The steady-state prompt was sent: return.
SendPrompt(h) ==
  /\ turns[h].pc = "prompt_send"
  /\ \/ sendResolves(h, PROMPT, "done")
     \/ sendRejects(h, PROMPT)
  /\ UNCHANGED <<others, nEvents, job>>

\* storeMessage(phoneNumber, userMessage, false, mood): a failed insert is
\* logged and swallowed; then getChatHistory is called.
StoreInbound(h) ==
  /\ turns[h].pc = "store_in"
  /\ LET t   == turns[h]
         txt == t.userMessage
     IN  \/ /\ noFail
            /\ chat_history' = Append(chat_history, storeMessageRow(t.msg.from, txt, FALSE, t.mood))
            /\ turns' = withTurn(h, step(t, "history_read", Ev("storeMessage", txt, TRUE)), FALSE)
         \/ /\ oneFail
            /\ turns' = withTurn(h, step(t, "history_read", Ev("storeMessage", txt, FALSE)), FALSE)
            /\ UNCHANGED chat_history
  /\ UNCHANGED <<userStates, userDataCache, users, suggestions, nEvents, job>>

\* getChatHistory(phoneNumber): a failed query yields []; then the profile
\* row is queried.
ReadHistory(h) ==
  /\ turns[h].pc = "history_read"
  /\ LET t == turns[h]
     IN  \/ /\ noFail
            /\ turns' = withTurn(h,
                 [step(t, "user_read", Ev("getChatHistory", Null, TRUE))
                    EXCEPT !.history = getChatHistory(chat_history, t.msg.from)], FALSE)
         \/ /\ oneFail
            /\ turns' = withTurn(h,
                 [step(t, "user_read", Ev("getChatHistory", Null, FALSE))
                    EXCEPT !.history = <<>>], FALSE)
  /\ UNCHANGED <<others, nEvents, job>>

\* db.query('SELECT name, gender, age_bracket FROM users ...'), not wrapped in
\* a try of its own; then getAIResponse is called.
ReadUser(h) ==
  /\ turns[h].pc = "user_read"
  /\ LET t == turns[h]
     IN  \/ /\ noFail
            /\ turns' = withTurn(h, step(t, "ai_call", Ev("selectUser", Null, TRUE)), FALSE)
         \/ /\ oneFail
            /\ turns' = withTurn(h, catchBlock(t, Ev("selectUser", Null, FALSE)), FALSE)
  /\ UNCHANGED <<others, nEvents, job>>

\* getAIResponse: the trimmed completion, or the fallback on any failure.
getAIResponse(ok, content) == IF ok THEN trim(content) ELSE AI_FALLBACK

\* Mutant of ReplyGenerated: getAIResponse has no catch and the failure of the
\* backend call reaches the catch block of the handler.
ReplyGeneratedPropagates(h) ==
  /\ turns[h].pc = "ai_call"
  /\ LET t == turns[h]
     IN  \E k \in emojiIndexes :
           \/ /\ noFail
              /\ \E content \in AIReplies :
                   turns' = withTurn(h,
                     [step(t, "store_out", Ev("getAIResponse", Null, TRUE))
                        EXCEPT !.finalReply =
                          enhanceWithEmoji(limitResponseLength(getAIResponse(TRUE, content)), t.mood, k)],
                     FALSE)
           \/ /\ oneFail
              /\ turns' = withTurn(h, catchBlock(t, Ev("getAIResponse", Null, FALSE)), FALSE)
  /\ UNCHANGED <<others, nEvents, job>>

\* The reply of the backend arrived: it is post-processed and stored.
ReplyGenerated(h) ==
  /\ turns[h].pc = "ai_call"
  /\ LET t == turns[h]
     IN  \E k \in emojiIndexes :
           \/ /\ noFail
              /\ \E content \in AIReplies :
                   turns' = withTurn(h,
                     [step(t, "store_out", Ev("getAIResponse", Null, TRUE))
                        EXCEPT !.finalReply =
                          enhanceWithEmoji(limitResponseLength(getAIResponse(TRUE, content)), t.mood, k)],
                     FALSE)
           \/ /\ oneFail
              /\ turns' = withTurn(h,
                   [step(t, "store_out", Ev("getAIResponse", Null, FALSE))
                      EXCEPT !.finalReply =
                        enhanceWithEmoji(limitResponseLength(getAIResponse(FALSE, Null)), t.mood, k)],
                   FALSE)
  /\ UNCHANGED <<others, nEvents, job>>

\* Mutant of afterChunk: the suggestion does not depend on the mood.
afterChunkAnyMood(t, i, roll) ==
  IF i < Len(t.finalReply) THEN "chunk_send"
  ELSE IF roll THEN "suggestion_ai"
  ELSE "done"

\* Where the handler goes once sendLongMessage has reached offset i: the next
\* chunk, or, the loop over, the suggestion when the mood is sad and
\* Math.random() > 0.5 (roll), else the end of the handler.
afterChunk(t, i, roll) ==
  IF i < Len(t.finalReply) THEN "chunk_send"
  ELSE IF t.mood = "sad" /\ roll THEN "suggestion_ai"
  ELSE "done"

\* storeMessage(phoneNumber, finalReply, true): swallowed on failure; then
\* sendLongMessage starts.
StoreOutbound(h) ==
  /\ turns[h].pc = "store_out"
  /\ LET t == turns[h]
     IN  \E roll \in BOOLEAN :
           \/ /\ noFail
              /\ chat_history' = Append(chat_history, storeMessageRow(t.msg.from, t.finalReply, TRUE, Null))
              /\ turns' = withTurn(h,
                   [step(t, afterChunk(t, 0, roll), Ev("storeMessage", t.finalReply, TRUE))
                      EXCEPT !.i = 0], FALSE)
           \/ /\ oneFail
              /\ turns' = withTurn(h,
                   [step(t, afterChunk(t, 0, roll), Ev("storeMessage", t.finalReply, FALSE))
                      EXCEPT !.i = 0], FALSE)
              /\ UNCHANGED chat_history
  /\ UNCHANGED <<userStates, userDataCache, users, suggestions, nEvents, job>>

\* One chunk of sendLongMessage was sent (and the pacing delay has passed).
SendChunk(h) ==
  /\ turns[h].pc = "chunk_send"
  /\ LET t     == turns[h]
         chunk == chunkAt(t.finalReply, t.i)
         j     == t.i + MESSAGE_CHUNK_LENGTH
     IN  \/ /\ noFail
            /\ \E roll \in BOOLEAN :
                 turns' = withTurn(h,
                   [step(t, afterChunk(t, j, roll), Sent(t.msg.from, chunk, TRUE))
                      EXCEPT !.i = j], FALSE)
         \/ sendRejects(h, chunk)
  /\ UNCHANGED <<others, nEvents, job>>

\* The suggestion of the backend arrived; saveSuggestion is called.
SuggestionGenerated(h) ==
  /\ turns[h].pc = "suggestion_ai"
  /\ LET t == turns[h]
     IN  \/ /\ noFail
            /\ \E content \in AIReplies :
                 turns' = withTurn(h,
                   [step(t, "suggestion_save", Ev("getAIResponse", Null, TRUE))
                      EXCEPT !.suggestion = getAIResponse(TRUE, content)], FALSE)
         \/ /\ oneFail
            /\ turns' = withTurn(h,
                 [step(t, "suggestion_save", Ev("getAIResponse", Null, FALSE))
                    EXCEPT !.suggestion = getAIResponse(FALSE, Null)], FALSE)
  /\ UNCHANGED <<others, nEvents, job>>

\* saveSuggestion(phoneNumber, mood, suggestion): swallowed on failure; then
\* the suggestion is sent.
SaveSuggestion(h) ==
  /\ turns[h].pc = "suggestion_save"
  /\ LET t == turns[h]
     IN  \/ /\ noFail
            /\ suggestions' = Append(suggestions, saveSuggestionRow(t.msg.from, t.mood, t.suggestion))
            /\ turns' = withTurn(h, step(t, "suggestion_send", Ev("saveSuggestion", t.suggestion, TRUE)), FALSE)
         \/ /\ oneFail
            /\ turns' = withTurn(h, step(t, "suggestion_send", Ev("saveSuggestion", t.suggestion, FALSE)), FALSE)
            /\ UNCHANGED suggestions
  /\ UNCHANGED <<userStates, userDataCache, users, chat_history, nEvents, job>>

\* The suggestion was sent: end of the handler.
SendSuggestion(h) ==
  /\ turns[h].pc = "suggestion_send"
  /\ LET text == suggestionMessage(turns[h].suggestion)
     IN  \/ sendResolves(h, text, "done")
         \/ sendRejects(h, text)
  /\ UNCHANGED <<others, nEvents, job>>

\* The apology of the catch block was sent, or its send was rejected too and
\* the handler's promise rejects.
SendApology(h) ==
  /\ turns[h].pc = "apology_send"
  /\ \/ sendResolves(h, APOLOGY, "done")
     \/ /\ oneFail
        /\ turns' = withTurn(h, step(turns[h], "done", Sent(turns[h].msg.from, APOLOGY, FALSE)), FALSE)
  /\ UNCHANGED <<others, nEvents, job>>

\* The handler's promise settles: the slot is free again.
Return(h) ==
  /\ turns[h].pc = "done"
  /\ turns' = [turns EXCEPT ![h] = idleTurn]
  /\ UNCHANGED <<others, nEvents, nFail, job>>

\* ------------------------------------------------ 8. scheduled features
CHECK_IN_FALLBACK == "Hey! Just checking in on you today"

\* A value inside a template literal: null is written "null".
templateString(v) == IF v = Null THEN "null" ELSE v

\* `Generate a ${mood}-appropriate check-in for ${user?.name || 'friend'}`
checkInPrompt(mood, user) ==
  "Generate a " \o templateString(mood) \o "-appropriate check-in for "
    \o (IF user = Undefined \/ user.name = Null \/ user.name = "" THEN "friend" ELSE user.name)

\* The sequences without repetition over the subsets of S: the results a
\* SELECT without ORDER BY can return when any of the rows of S may match.
selections(S) ==
  { rows \in UNION { [1..k -> S] : k \in 0..Cardinality(S) } :
      \A a, b \in DOMAIN rows : a # b => rows[a] # rows[b] }

\* Rows with activated = true; which of them have a last_interaction within
\* seven days depends on the clock, which is not part of the state.
activatedUsers == { id \in Ids : users[id] # Undefined /\ users[id].activated }

\* history.length > 0 ? history[history.length-1].mood : 'neutral'
lastMoodOf(history) == IF Len(history) > 0 THEN history[Len(history)].mood ELSE "neutral"

JobEv(op, to, arg, ok) == [op |-> op, to |-> to, arg |-> arg, ok |-> ok]
jobStep(j, pc, ev) == [j EXCEPT !.pc = pc, !.trace = Append(@, ev)]

\* The for loop of sendDailyCheckIn moves to the next row, or the job is over.
nextUser(j) ==
  IF j.n < Len(j.rows)
  THEN [j EXCEPT !.pc = "job_history", !.n = @ + 1, !.lastMood = Null, !.prompt = Null,
                 !.message = Null]
  ELSE [j EXCEPT !.pc = "done"]

\* Mutant of perUserCatch: the failure is thrown again, to the try block
\* around the loop, and the batch is over.
perUserCatchRethrows(j, ev) == jobStep(j, "done", ev)

\* The catch block inside the loop: the failure is logged, the loop goes on.
perUserCatch(j, ev) == nextUser(jobStep(j, j.pc, ev))

\* The scheduler fires: sendDailyCheckIn is called.
CheckInStart ==
  /\ job.pc = "idle"
  /\ job.runs < MaxRuns
  /\ job' = [idleJob EXCEPT !.pc = "job_select", !.runs = job.runs + 1]
  /\ UNCHANGED <<others, turns, nEvents, nFail>>

\* SELECT phone_number FROM users WHERE activated ... : the loop starts on the
\* rows; a failed query is caught by the try block around the whole job.
CheckInSelect ==
  /\ job.pc = "job_select"
  /\ \/ /\ noFail
        /\ \E rows \in selections(activatedUsers) :
             job' = nextUser([jobStep(job, "job_select", JobEv("selectActive", Null, Len(rows), TRUE))
                                EXCEPT !.rows = rows])
     \/ /\ oneFail
        /\ job' = jobStep(job, "done", JobEv("selectActive", Null, 0, FALSE))
  /\ UNCHANGED <<others, turns, nEvents>>

\* getChatHistory(user.phone_number) and lastMood; a failed query yields [].
CheckInHistory ==
  /\ job.pc = "job_history"
  /\ LET user == job.rows[job.n]
     IN  \/ /\ noFail
            /\ job' = [jobStep(job, "job_name", JobEv("getChatHistory", user, Null, TRUE))
                         EXCEPT !.lastMood = lastMoodOf(getChatHistory(chat_history, user))]
         \/ /\ oneFail
            /\ job' = [jobStep(job, "job_name", JobEv("getChatHistory", user, Null, FALSE))
                         EXCEPT !.lastMood = lastMoodOf(<<>>)]
  /\ UNCHANGED <<others, turns, nEvents>>

\* generateCheckInMessage: SELECT name FROM users, then the prompt; a failed
\* query is caught there and the fixed check-in text is returned.
CheckInName ==
  /\ job.pc = "job_name"
  /\ LET user == job.rows[job.n]
     IN  \/ /\ noFail
            /\ job' = [jobStep(job, "job_ai", JobEv("selectName", user, Null, TRUE))
                         EXCEPT !.prompt = checkInPrompt(job.lastMood, users[user])]
         \/ /\ oneFail
            /\ job' = [jobStep(job, "job_send", JobEv("selectName", user, Null, FALSE))
                         EXCEPT !.message = CHECK_IN_FALLBACK]
  /\ UNCHANGED <<others, turns, nEvents>>

\* getAIResponse(prompt, [], { isCheckIn: true }): the completion or the fallback.
CheckInGenerate ==
  /\ job.pc = "job_ai"
  /\ LET user == job.rows[job.n]
     IN  \/ /\ noFail
            /\ \E content \in AIReplies :
                 job' = [jobStep(job, "job_send", JobEv("getAIResponse", user, job.prompt, TRUE))
                           EXCEPT !.message = getAIResponse(TRUE, content)]
         \/ /\ oneFail
            /\ job' = [jobStep(job, "job_send", JobEv("getAIResponse", user, job.prompt, FALSE))
                         EXCEPT !.message = getAIResponse(FALSE, Null)]
  /\ UNCHANGED <<others, turns, nEvents>>

\* client.sendMessage(user.phone_number, message); a rejected send is caught
\* inside the loop.
CheckInSend ==
  /\ job.pc = "job_send"
  /\ LET user == job.rows[job.n]
     IN  \/ /\ noFail
            /\ job' = jobStep(job, "job_store", Sent(user, job.message, TRUE))
         \/ /\ oneFail
            /\ job' = perUserCatch(job, Sent(user, job.message, FALSE))
  /\ UNCHANGED <<others, turns, nEvents>>

\* storeMessage(user.phone_number, message, true): the mood of the row is the
\* default null; a failed insert is swallowed.
CheckInStore ==
  /\ job.pc = "job_store"
  /\ LET user == job.rows[job.n]
     IN  \/ /\ noFail
            /\ chat_history' = Append(chat_history, storeMessageRow(user, job.message, TRUE, Null))
            /\ job' = nextUser(jobStep(job, "job_store", JobEv("storeMessage", user, job.message, TRUE)))
         \/ /\ oneFail
            /\ job' = nextUser(jobStep(job, "job_store", JobEv("storeMessage", user, job.message, FALSE)))
            /\ UNCHANGED chat_history
  /\ UNCHANGED <<userStates, userDataCache, users, suggestions, turns, nEvents>>

\* sendDailyCheckIn returns.
CheckInReturn ==
  /\ job.pc = "done"
  /\ job' = [job EXCEPT !.pc = "idle"]
  /\ UNCHANGED <<others, turns, nEvents, nFail>>

\* ------------------------------------------------------- specification
\* Inbound events: every sample body from the first direct chat, the trigger
\* and a gender answer from the second, one group message and one status message.
Messages ==
  [from : {"1@c.us"}, body : Bodies, isStatus : {FALSE}]
    \cup [from : {"2@c.us"}, body : {"Hey Stink", "Girl or boy"}, isStatus : {FALSE}]
    \cup [from : Groups, body : {"Hey Stink"}, isStatus : {FALSE}]
    \cup [from : {"1@c.us"}, body : {"Hey Stink"}, isStatus : {TRUE}]

Next ==
  \/ \E h \in Handlers, msg \in Messages : ReceiveFiltered(h, msg)
  \/ \E h \in Handlers, msg \in Messages : ReceiveTrigger(h, msg)
  \/ \E h \in Handlers, msg \in Messages : ReceiveIgnored(h, msg)
  \/ \E h \in Handlers, msg \in Messages : ReceiveName(h, msg)
  \/ \E h \in Handlers, msg \in Messages : ReceiveGender(h, msg)
  \/ \E h \in Handlers, msg \in Messages : ReceiveActive(h, msg)
  \/ \E h \in Handlers : SendGreeting(h)
  \/ \E h \in Handlers : SaveNameProfile(h)
  \/ \E h \in Handlers : SendAck(h)
  \/ \E h \in Handlers : SendAsk(h)
  \/ \E h \in Handlers : SaveGenderProfile(h)
  \/ \E h \in Handlers : SendPrompt(h)
  \/ \E h \in Handlers : StoreInbound(h)
  \/ \E h \in Handlers : ReadHistory(h)
  \/ \E h \in Handlers : ReadUser(h)
  \/ \E h \in Handlers : ReplyGenerated(h)
  \/ \E h \in Handlers : StoreOutbound(h)
  \/ \E h \in Handlers : SendChunk(h)
  \/ \E h \in Handlers : SuggestionGenerated(h)
  \/ \E h \in Handlers : SaveSuggestion(h)
  \/ \E h \in Handlers : SendSuggestion(h)
  \/ \E h \in Handlers : SendApology(h)
  \/ \E h \in Handlers : Return(h)

Spec == Init /\ [][Next]_vars

\* --------------------------------------- specification of the check-in job
\* Profiles the onboarding writes: a listed name, and a name with its gender
\* answered.
sampleProfile(id) ==
  IF id = "1@c.us"
  THEN [name |-> "John", gender |-> detectGenderFromName("John"), ageBracket |-> estimateAgeBracket("John")]
  ELSE [name |-> "Amy", gender |-> resolveGender("girl"), ageBracket |-> estimateAgeBracket("girl")]

\* What the active turns of a sender leave in chat_history: nothing yet, an
\* inbound message, or an inbound message and its reply.
conversations(id) ==
  LET text    == "sad boy girl skip"
      inbound == storeMessageRow(id, text, FALSE, detectMood(text))
      reply   == storeMessageRow(id, enhanceWithEmoji(limitResponseLength(AI_FALLBACK), detectMood(text), 0),
                                 TRUE, Null)
  IN  { <<>>, <<inbound>>, <<inbound, reply>> }

\* The program at rest, some senders onboarded and active, before the
\* scheduler fires.
CheckInInit ==
  /\ \E onboarded \in SUBSET Users :
       /\ users = [id \in Ids |-> IF id \in onboarded
                                  THEN saveUserProfileRow(Undefined, sampleProfile(id))
                                  ELSE Undefined]
       /\ userStates = [id \in Ids |-> IF id \in onboarded THEN "active" ELSE Null]
       /\ userDataCache = [id \in Ids |-> IF id \in onboarded
                                          THEN [name |-> sampleProfile(id).name]
                                          ELSE Undefined]
       /\ \E c1 \in conversations("1@c.us"), c2 \in conversations("2@c.us") :
            chat_history = (IF "1@c.us" \in onboarded THEN c1 ELSE <<>>)
                             \o (IF "2@c.us" \in onboarded THEN c2 ELSE <<>>)
  /\ suggestions = <<>>
  /\ turns = [h \in Handlers |-> idleTurn]
  /\ nEvents = 0
  /\ nFail = 0
  /\ job = idleJob

CheckInNext ==
  \/ CheckInStart
  \/ CheckInSelect
  \/ CheckInHistory
  \/ CheckInName
  \/ CheckInGenerate
  \/ CheckInSend
  \/ CheckInStore
  \/ CheckInReturn

CheckInSpec == CheckInInit /\ [][CheckInNext]_vars

\* ------------------------------------ specification of chunked delivery
\* The first n characters of the digits repeated.
RECURSIVE repeatTo(_, _)
repeatTo(s, n) == IF Len(s) >= n THEN SubSeq(s, 1, n) ELSE repeatTo(s \o s, n)

\* Lengths around every multiple of the chunk length, up to MaxChunks full chunks.
chunkLengths ==
  { n \in { k * MESSAGE_CHUNK_LENGTH + d : k \in 0..MaxChunks, d \in -1..2 } : n >= 0 }

finalReplies == { repeatTo(Digits, n) : n \in chunkLengths }

\* An active turn that has stored its reply and enters sendLongMessage, the
\* reply drawn from finalReplies.
ChunkInit ==
  /\ userStates = [id \in Ids |-> IF id = "1@c.us" THEN "active" ELSE Null]
  /\ userDataCache = [id \in Ids |-> IF id = "1@c.us" THEN [name |-> sampleProfile(id).name] ELSE Undefined]
  /\ users = [id \in Ids |-> IF id = "1@c.us" THEN saveUserProfileRow(Undefined, sampleProfile(id))
                             ELSE Undefined]
  /\ suggestions = <<>>
  /\ nEvents = 1
  /\ nFail = 0
  /\ job = idleJob
  /\ \E finalReply \in finalReplies :
       LET msg == [from |-> "1@c.us", body |-> " John", isStatus |-> FALSE]
           t   == [idleTurn EXCEPT !.msg = msg, !.userMessage = userMessageOf(msg),
                     !.lowerMessage = lowerMessageOf(msg), !.entry = "active",
                     !.mood = detectMood(userMessageOf(msg)), !.finalReply = finalReply]
       IN  /\ chat_history = << storeMessageRow(msg.from, t.userMessage, FALSE, t.mood),
                                storeMessageRow(msg.from, finalReply, TRUE, Null) >>
           /\ turns = [h \in Handlers |->
                         IF h = "h1" THEN [t EXCEPT !.pc = afterChunk(t, 0, FALSE)] ELSE idleTurn]

ChunkNext ==
  \/ \E h \in Handlers : SendChunk(h)
  \/ \E h \in Handlers : SendApology(h)
  \/ \E h \in Handlers : Return(h)

ChunkSpec == ChunkInit /\ [][ChunkNext]_vars

\* --------------------------------------- specification of the profile upsert
\* Rows of the table users, and arguments of saveUserProfile, every field
\* null or not.
existingRows ==
  {Undefined} \cup [name : {Null, "Amy"}, gender : {Null, "female"}, age_bracket : {Null, "teen"},
                    activated : {TRUE}]

profiles == [name : {Null, "John"}, gender : {Null, "male"}, ageBracket : {Null, "adult"}]

\* A turn suspended at its call of saveUserProfile, the row of the sender and
\* the argument drawn from existingRows and profiles.
UpsertInit ==
  /\ userStates = [id \in Ids |-> IF id = "1@c.us" THEN "awaiting_name" ELSE Null]
  /\ userDataCache = [id \in Ids |-> IF id = "1@c.us" THEN [name |-> "John"] ELSE Undefined]
  /\ chat_history = <<>>
  /\ suggestions = <<>>
  /\ nEvents = 1
  /\ nFail = 0
  /\ job = idleJob
  /\ \E old \in existingRows, data \in profiles :
       LET msg == [from |-> "1@c.us", body |-> " John", isStatus |-> FALSE]
       IN  /\ users = [id \in Ids |-> IF id = msg.from THEN old ELSE Undefined]
           /\ turns = [h \in Handlers |->
                         IF h = "h1"
                         THEN [idleTurn EXCEPT !.pc = "name_save", !.msg = msg,
                                 !.userMessage = userMessageOf(msg),
                                 !.lowerMessage = lowerMessageOf(msg),
                                 !.entry = "awaiting_name", !.data = data,
                                 !.trace = <<Ev("userDataCache", "John", TRUE)>>]
                         ELSE idleTurn]

UpsertNext ==
  \/ \E h \in Handlers : SaveNameProfile(h)
  \/ \E h \in Handlers : SendAck(h)
  \/ \E h \in Handlers : SendApology(h)
  \/ \E h \in Handlers : Return(h)

UpsertSpec == UpsertInit /\ [][UpsertNext]_vars

\* ------------------------------------------------------------ claims
\* The turn in a slot, by the branch of the handler its inbound event takes.
started(t) == t.pc # "idle"
unfiltered(t) == started(t) /\ t.userMessage # Null
TriggerTurn(t) == unfiltered(t) /\ t.entry = Null /\ includes(t.lowerMessage, "hey stink")
IgnoredTurn(t) == unfiltered(t) /\ t.entry = Null /\ ~includes(t.lowerMessage, "hey stink")
NameTurn(t) == unfiltered(t) /\ t.entry = "awaiting_name"
GenderTurn(t) == unfiltered(t) /\ t.entry = "awaiting_gender"
ActiveTurn(t) == unfiltered(t) /\ t.entry = "active"
candidateName(t) == trim(t.userMessage)
ResolvedNameTurn(t) == NameTurn(t) /\ detectGenderFromName(candidateName(t)) # "unknown"
UnknownNameTurn(t) == NameTurn(t) /\ detectGenderFromName(candidateName(t)) = "unknown"

\* The slot whose invocation took the step.
actor(h) == turns'[h].pc # turns[h].pc \/ turns'[h].trace # turns[h].trace

events(t, op) == SelectSeq(t.trace, LAMBDA e : e.op = op)
sends(t) == events(t, "sendMessage")
apologies(t) == SelectSeq(t.trace, LAMBDA e : e.op = "sendMessage" /\ e.arg = APOLOGY)
happened(t, op, ok) == \E n \in 1..Len(t.trace) : t.trace[n].op = op /\ t.trace[n].ok = ok
\* A step of the try block raised: a rejected send, a failed profile upsert,
\* a failed profile query.
raised(e) ==
  \/ e.op = "sendMessage" /\ ~e.ok /\ e.arg # APOLOGY
  \/ e.op \in {"saveUserProfile", "selectUser"} /\ ~e.ok
threw(t) == \E n \in 1..Len(t.trace) : raised(t.trace[n])

\* C1 as stated: in awaiting_gender the gender follows the priority boy, girl,
\* skip, other (the first keyword of that order that the text contains wins).
boyFirst(lowerMessage) ==
  IF includes(lowerMessage, "boy") THEN "male"
  ELSE IF includes(lowerMessage, "girl") THEN "female"
  ELSE IF includes(lowerMessage, "skip") THEN "prefer not to say"
  ELSE "other"

C1_BoyFirst ==
  \A h \in Handlers :
    GenderTurn(turns[h]) => turns[h].data.gender = boyFirst(turns[h].lowerMessage)

\* C1 amended: in awaiting_gender the gender follows the priority skip, girl,
\* boy, other: a text with "skip" is "prefer not to say", else one with "girl"
\* is female, else one with "boy" is male, else it is "other".
skipFirst(lowerMessage) ==
  IF includes(lowerMessage, "skip") THEN "prefer not to say"
  ELSE IF includes(lowerMessage, "girl") THEN "female"
  ELSE IF includes(lowerMessage, "boy") THEN "male"
  ELSE "other"

C1_SkipFirst ==
  \A h \in Handlers :
    GenderTurn(turns[h]) => turns[h].data.gender = skipFirst(turns[h].lowerMessage)

C1_Witness ==
  \E h \in Handlers :
    /\ GenderTurn(turns[h])
    /\ includes(turns[h].lowerMessage, "boy")
    /\ includes(turns[h].lowerMessage, "girl")
    /\ includes(turns[h].lowerMessage, "skip")
    /\ turns[h].data.gender = "prefer not to say"

\* C2 as stated: for every sender the pending profile name is set if and only
\* if the session state is awaiting_gender.
C2_NameIffAwaitingGender ==
  \A id \in Ids : (userDataCache[id] # Undefined) <=> (userStates[id] = "awaiting_gender")

\* C2 amended: the pending name is set whenever the session is awaiting_gender
\* and is not set while the session is absent (it may be set in awaiting_name
\* and it stays set in active).
C2_NameWhenAwaitingGender ==
  \A id \in Ids :
    /\ userStates[id] = "awaiting_gender" =>
         userDataCache[id] # Undefined /\ userDataCache[id].name # Null
    /\ userStates[id] = Null => userDataCache[id] = Undefined

C2_Witness ==
  \E id \in Ids :
    /\ userStates[id] = "awaiting_gender"
    /\ userDataCache[id] # Undefined
    /\ \E k \in Ids : userStates[k] = Null

\* C3 as stated: a turn whose profile upsert failed sends no outbound message
\* at all, neither acknowledgment, prompt nor apology.
C3_NoOutbound ==
  \A h \in Handlers :
    (started(turns[h]) /\ happened(turns[h], "saveUserProfile", FALSE)) => sends(turns[h]) = <<>>

\* C3 amended: a turn whose profile upsert failed sends neither the
\* acknowledgment nor the steady-state prompt; the failure reaches the catch
\* block, and the one outbound message of the turn is the apology.
C3_ApologyOnly ==
  \A h \in Handlers :
    LET t == turns[h]
    IN  (started(t) /\ happened(t, "saveUserProfile", FALSE)) =>
          /\ t.pc \in {"apology_send", "done"}
          /\ sends(t) = apologies(t)
          /\ t.pc = "done" => Len(sends(t)) = 1

C3_Witness ==
  \E h \in Handlers :
    /\ turns[h].pc = "done"
    /\ turns[h].entry \in {"awaiting_name", "awaiting_gender"}
    /\ happened(turns[h], "saveUserProfile", FALSE)
    /\ sends(turns[h]) = <<Sent(turns[h].msg.from, APOLOGY, TRUE)>>

\* C4: a turn of an unfiltered event in which a step raised ends with exactly
\* one apology send, the last step of the turn, addressed to the sender of the
\* event.
C4_OneApology ==
  \A h \in Handlers :
    LET t == turns[h]
    IN  (unfiltered(t) /\ threw(t)) =>
          /\ t.pc \in {"apology_send", "done"}
          /\ t.pc = "done" =>
               /\ Len(apologies(t)) = 1
               /\ t.trace[Len(t.trace)].op = "sendMessage"
               /\ t.trace[Len(t.trace)].arg = APOLOGY
               /\ t.trace[Len(t.trace)].to = t.msg.from

C4_Witness ==
  \E h \in Handlers :
    LET t == turns[h]
    IN  /\ unfiltered(t) /\ t.pc = "done" /\ Len(t.trace) >= 2
        /\ raised(t.trace[Len(t.trace) - 1])
        /\ t.trace[Len(t.trace)] = Sent(t.msg.from, APOLOGY, TRUE)

\* C5: a turn of a sender without session entry whose text contains the
\* trigger creates the session in awaiting_name, sends the greeting and
\* nothing else when the greeting is accepted, writes to no table and makes no
\* other transition.
C5_TriggerTurn ==
  [][ \A h \in Handlers :
        LET t == turns'[h]
        IN  TriggerTurn(t) =>
              /\ t.trace[1] = Ev("userStates", "awaiting_name", TRUE)
              /\ Len(events(t, "userStates")) = 1
              /\ Len(t.trace) >= 2 => t.trace[2].op = "sendMessage" /\ t.trace[2].arg = GREETING
              /\ (t.pc = "done" /\ t.trace[2].ok) => Len(t.trace) = 2
              /\ sends(t) = SelectSeq(sends(t), LAMBDA e : e.arg \in {GREETING, APOLOGY})
              /\ t.solo => userStates'[t.msg.from] = "awaiting_name"
              /\ actor(h) => UNCHANGED <<users, chat_history, suggestions, userDataCache>>
    ]_vars

C5_Witness ==
  \E h \in Handlers :
    /\ TriggerTurn(turns[h])
    /\ turns[h].pc = "done"
    /\ turns[h].trace = <<Ev("userStates", "awaiting_name", TRUE),
                          Sent(turns[h].msg.from, GREETING, TRUE)>>
    /\ users[turns[h].msg.from] = Undefined

\* C6: the turn of a sender without session entry whose text does not contain
\* the trigger is one step that changes nothing: no session entry, no send, no
\* query.
C6_NoOp ==
  [][ \A h \in Handlers :
        IgnoredTurn(turns'[h]) =>
          /\ turns'[h].pc = "done"
          /\ turns'[h].trace = <<>>
          /\ userStates'[turns'[h].msg.from] = Null
          /\ UNCHANGED <<userStates, userDataCache, users, chat_history, suggestions>>
    ]_vars

C6_Witness ==
  \E h \in Handlers : IgnoredTurn(turns[h]) /\ turns[h].pc = "done"

\* C7: a turn in awaiting_name whose name is in neither list records the name
\* as pending name, moves the session to awaiting_gender, sends the gender
\* question and leaves the table users unchanged.
C7_UnknownName ==
  [][ \A h \in Handlers :
        LET t == turns'[h]
        IN  UnknownNameTurn(t) =>
              /\ Len(t.trace) >= 2
              /\ t.trace[1] = Ev("userDataCache", candidateName(t), TRUE)
              /\ t.trace[2] = Ev("userStates", "awaiting_gender", TRUE)
              /\ Len(t.trace) >= 3 =>
                   /\ t.trace[3].op = "sendMessage"
                   /\ t.trace[3].arg = askMessage(candidateName(t))
              /\ Len(t.trace) = 2 => t.pc = "ask_send"
              /\ events(t, "saveUserProfile") = <<>>
              /\ t.solo => /\ userStates'[t.msg.from] = "awaiting_gender"
                           /\ userDataCache'[t.msg.from] = [name |-> candidateName(t)]
              /\ actor(h) => users' = users
    ]_vars

C7_Witness ==
  \E h \in Handlers :
    LET t == turns[h]
    IN  /\ UnknownNameTurn(t) /\ t.pc = "done" /\ t.solo
        /\ Len(t.trace) = 3 /\ t.trace[3] = Sent(t.msg.from, askMessage(candidateName(t)), TRUE)
        /\ userStates[t.msg.from] = "awaiting_gender"

\* C8: a turn in awaiting_gender upserts the profile with the pending name and
\* the gender resolved from the text; the upsert done, the session is active
\* and the steady-state prompt is sent, and when the turn is over the row of
\* the sender has that name and that gender (no other turn of the sender
\* running meanwhile).
C8_GenderTurn ==
  \A h \in Handlers :
    LET t  == turns[h]
        id == t.msg.from
    IN  GenderTurn(t) =>
          /\ t.data.name = userDataCache[id].name
          /\ t.data.name # Null
          /\ t.data.gender = resolveGender(t.lowerMessage)
          /\ happened(t, "saveUserProfile", TRUE) =>
               /\ Len(t.trace) >= 2
               /\ t.trace[1] = Ev("saveUserProfile", t.data.name, TRUE)
               /\ t.trace[2] = Ev("userStates", "active", TRUE)
               /\ Len(t.trace) = 2 => t.pc = "prompt_send"
               /\ Len(t.trace) >= 3 => t.trace[3].op = "sendMessage" /\ t.trace[3].arg = PROMPT
               /\ userStates[id] = "active"
               /\ users[id] # Undefined
               /\ t.solo => users[id].name = t.data.name /\ users[id].gender = t.data.gender

C8_Witness ==
  \E h \in Handlers :
    LET t == turns[h]
    IN  /\ GenderTurn(t) /\ t.pc = "done" /\ t.solo
        /\ t.trace = <<Ev("saveUserProfile", t.data.name, TRUE), Ev("userStates", "active", TRUE),
                       Sent(t.msg.from, PROMPT, TRUE)>>
        /\ users[t.msg.from].name = userDataCache[t.msg.from].name
        /\ users[t.msg.from].gender = "female"

\* C9 as stated: in a turn in awaiting_name whose name resolves the gender, the
\* session is already active at the moment the acknowledgment is sent.
C9_ActiveBeforeAck ==
  \A h \in Handlers :
    (ResolvedNameTurn(turns[h]) /\ turns[h].pc = "ack_send") =>
       userStates[turns[h].msg.from] = "active"

\* C10 as stated: in an active turn that delivers a reply the inbound message
\* is persisted, then the history is read, then the reply is persisted, then
\* it is delivered; and when the inbound persist succeeds the history read
\* contains the inbound message.
inboundRow(t) == [message |-> t.userMessage, is_bot |-> FALSE, mood |-> t.mood]
delivered(t) == \E n \in 1..Len(t.trace) :
                  t.trace[n].op = "sendMessage" /\ t.trace[n].ok /\ t.trace[n].arg # APOLOGY
replyOrder(t) ==
  /\ t.trace[1].op = "storeMessage" /\ t.trace[1].arg = t.userMessage
  /\ t.trace[2].op = "getChatHistory"
  /\ t.trace[5].op = "storeMessage" /\ t.trace[5].arg = t.finalReply
  /\ \A n \in 1..Len(t.trace) : t.trace[n].op = "sendMessage" => n > 5

C10_HistoryHasInbound ==
  \A h \in Handlers :
    LET t == turns[h]
    IN  (ActiveTurn(t) /\ delivered(t)) =>
          /\ replyOrder(t)
          /\ t.trace[1].ok => inboundRow(t) \in Range(t.history)

\* C10 amended: the order is as stated; the history read contains the inbound
\* message when the inbound persist and the history read both succeed and no
\* other turn of the sender runs meanwhile (a failed read yields an empty
\* history and the reply is still delivered).
C10_ReplyOrder ==
  \A h \in Handlers :
    LET t == turns[h]
    IN  (ActiveTurn(t) /\ delivered(t)) =>
          /\ replyOrder(t)
          /\ (t.trace[1].ok /\ t.trace[2].ok /\ t.solo) =>
               /\ t.history # <<>>
               /\ t.history[Len(t.history)] = inboundRow(t)
          /\ ~t.trace[2].ok => t.history = <<>>

C10_Witness ==
  \E h \in Handlers :
    LET t == turns[h]
    IN  /\ ActiveTurn(t) /\ delivered(t) /\ t.pc = "done" /\ t.solo
        /\ t.trace[1].ok /\ t.trace[2].ok
        /\ t.history[Len(t.history)] = inboundRow(t)

\* C11: an active turn whose mood is sad and whose roll is true goes on, the
\* whole reply delivered, to the suggestion: when no step of it raises, its
\* last step is the send of the suggestion message, after the reply, and the
\* row of the suggestion is in the table suggestions when its insert
\* succeeded; an active turn whose mood is not sad generates, stores and sends
\* no suggestion, and every row of suggestions has the mood sad.
suggested(t) ==
  \/ t.pc \in {"suggestion_ai", "suggestion_save", "suggestion_send"}
  \/ Len(events(t, "getAIResponse")) >= 2
isSuggestionText(text) == Len(text) >= 12 /\ SubSeq(text, 1, 12) = "Suggestion: "
suggestionSends(t) ==
  SelectSeq(t.trace, LAMBDA e : e.op = "sendMessage" /\ isSuggestionText(e.arg))

C11_Suggestion ==
  /\ \A n \in 1..Len(suggestions) : suggestions[n].mood = "sad"
  /\ \A h \in Handlers :
       LET t == turns[h]
       IN  ActiveTurn(t) =>
             /\ t.mood # "sad" =>
                  /\ ~suggested(t)
                  /\ events(t, "saveSuggestion") = <<>>
                  /\ suggestionSends(t) = <<>>
             /\ suggested(t) =>
                  /\ t.mood = "sad"
                  /\ delivered(t)
                  /\ t.i >= Len(t.finalReply)
                  /\ ~isSuggestionText(t.finalReply)
             /\ (suggested(t) /\ t.pc = "done" /\ ~threw(t)) =>
                  /\ t.trace[Len(t.trace)] = Sent(t.msg.from, suggestionMessage(t.suggestion), TRUE)
                  /\ Len(suggestionSends(t)) = 1
                  /\ Len(events(t, "saveSuggestion")) = 1
                  /\ happened(t, "saveSuggestion", TRUE) =>
                       saveSuggestionRow(t.msg.from, "sad", t.suggestion) \in Range(suggestions)

C11_Witness ==
  \E h \in Handlers :
    LET t == turns[h]
    IN  /\ ActiveTurn(t) /\ t.pc = "done" /\ t.mood = "sad"
        /\ t.trace[Len(t.trace)] = Sent(t.msg.from, suggestionMessage(t.suggestion), TRUE)
        /\ t.trace[Len(t.trace) - 3] = Sent(t.msg.from, t.finalReply, TRUE)
        /\ saveSuggestionRow(t.msg.from, "sad", t.suggestion) \in Range(suggestions)

\* C12: in an active turn whose backend call fails, getAIResponse returns the
\* fallback text and nothing is raised: the reply is the fallback with its
\* emoji, it is stored and, no send being rejected, delivered to the sender,
\* and no apology is sent; a failed backend call for the suggestion likewise
\* makes the fallback text the suggestion.
aiFailed(t) == Len(t.trace) >= 4 /\ t.trace[4] = Ev("getAIResponse", Null, FALSE)
startsWith(text, prefix) == Len(text) >= Len(prefix) /\ SubSeq(text, 1, Len(prefix)) = prefix

C12_Fallback ==
  \A h \in Handlers :
    LET t == turns[h]
    IN  /\ (ActiveTurn(t) /\ aiFailed(t)) =>
              /\ startsWith(t.finalReply, AI_FALLBACK \o " ")
              /\ Len(t.trace) = 4 => t.pc = "store_out"
              /\ Len(t.trace) >= 5 => t.trace[5].op = "storeMessage" /\ t.trace[5].arg = t.finalReply
              /\ ~threw(t) => t.pc # "apology_send" /\ apologies(t) = <<>>
              /\ (t.pc = "done" /\ ~threw(t) /\ Len(t.finalReply) <= MESSAGE_CHUNK_LENGTH) =>
                   \E n \in 1..Len(t.trace) : t.trace[n] = Sent(t.msg.from, t.finalReply, TRUE)
        /\ (ActiveTurn(t) /\ Len(events(t, "getAIResponse")) >= 2
              /\ ~events(t, "getAIResponse")[2].ok) =>
              /\ t.suggestion = AI_FALLBACK
              /\ t.pc \in {"suggestion_save", "suggestion_send", "apology_send", "done"}

C12_Witness ==
  \E h \in Handlers :
    LET t == turns[h]
    IN  /\ ActiveTurn(t) /\ aiFailed(t) /\ t.pc = "done"
        /\ startsWith(t.finalReply, AI_FALLBACK)
        /\ apologies(t) = <<>>
        /\ t.trace[6] = Sent(t.msg.from, t.finalReply, TRUE)

\* C13 as stated: in an active turn a failed store read, of the chat history
\* or of the profile row, does not abort the turn: nothing else failing, no
\* apology is sent and the turn ends with its reply delivered.
readFailed(t) == happened(t, "getChatHistory", FALSE) \/ happened(t, "selectUser", FALSE)
onlyReadsFailed(t) ==
  \A n \in 1..Len(t.trace) : ~t.trace[n].ok => t.trace[n].op \in {"getChatHistory", "selectUser"}

C13_ReadsDegrade ==
  \A h \in Handlers :
    LET t == turns[h]
    IN  (ActiveTurn(t) /\ readFailed(t) /\ onlyReadsFailed(t)) =>
          /\ t.pc # "apology_send"
          /\ apologies(t) = <<>>
          /\ t.pc = "done" => delivered(t)

\* C14: in a run of the check-in job every row of the eligible users is
\* processed, in the order of the rows, whatever failed for the rows before
\* it: each row has its history read and its send, a failure never ends the
\* loop, the job can always take its next step until it returns, and a run
\* over no row (none eligible, or the query failed) sends nothing.
recipients(j, op) ==
  LET es == SelectSeq(j.trace, LAMBDA e : e.op = op)
  IN  [k \in 1..Len(es) |-> es[k].to]
jobFailures(j, user) == { n \in 1..Len(j.trace) : j.trace[n].to = user /\ ~j.trace[n].ok }

C14_BatchCompletes ==
  /\ job.pc = "job_history" =>
       /\ recipients(job, "getChatHistory") = SubSeq(job.rows, 1, job.n - 1)
       /\ recipients(job, "sendMessage") = SubSeq(job.rows, 1, job.n - 1)
  /\ job.pc \in {"job_name", "job_ai", "job_send"} =>
       /\ recipients(job, "getChatHistory") = SubSeq(job.rows, 1, job.n)
       /\ recipients(job, "sendMessage") = SubSeq(job.rows, 1, job.n - 1)
  /\ job.pc = "job_store" =>
       /\ recipients(job, "getChatHistory") = SubSeq(job.rows, 1, job.n)
       /\ recipients(job, "sendMessage") = SubSeq(job.rows, 1, job.n)
  /\ (job.pc \in {"done", "idle"} /\ job.runs > 0) =>
       /\ recipients(job, "getChatHistory") = job.rows
       /\ recipients(job, "sendMessage") = job.rows
  /\ (job.pc = "done" /\ ~job.trace[1].ok) => Len(job.trace) = 1
  /\ job.rows = <<>> => recipients(job, "sendMessage") = <<>>
  /\ job.pc \notin {"idle", "done"} => ENABLED CheckInNext

C14_Witness ==
  /\ job.pc = "done"
  /\ Len(job.rows) = 2
  /\ jobFailures(job, job.rows[1]) # {}
  /\ \E n \in 1..Len(job.trace) : job.trace[n] = Sent(job.rows[2], job.message, TRUE)
  /\ job.trace[Len(job.trace)] = JobEv("storeMessage", job.rows[2], job.message, TRUE)

\* C17 as stated: the mood the check-in job takes from the chat history of a
\* user, and writes into the prompt, is always one of happy, sad, neutral.
moods == {"happy", "sad", "neutral"}

C17_MoodInPrompt ==
  /\ job.pc \in {"job_name", "job_ai", "job_send", "job_store"} => job.lastMood \in moods
  /\ job.prompt # Null =>
       \E mood \in moods : job.prompt = checkInPrompt(mood, users[job.rows[job.n]])

\* C15: the chunks sendLongMessage has sent so far, joined in the order of
\* their sends, are the text up to the offset the loop has reached, nothing
\* dropped and nothing twice; the loop over and no send rejected, they are the
\* whole text; and no chunk is empty or longer than 4000 characters.
RECURSIVE concatArgs(_)
concatArgs(es) == IF es = <<>> THEN "" ELSE es[1].arg \o concatArgs(Tail(es))
chunkSends(t) == SelectSeq(t.trace, LAMBDA e : e.op = "sendMessage" /\ e.arg # APOLOGY)
chunksSent(t) == SelectSeq(chunkSends(t), LAMBDA e : e.ok)

C15_ChunkRoundTrip ==
  \A h \in Handlers :
    LET t     == turns[h]
        text  == t.finalReply
        reach == IF t.i < Len(text) THEN t.i ELSE Len(text)
    IN  (started(t) /\ text # Null) =>
          /\ \A n \in 1..Len(chunkSends(t)) :
               /\ Len(chunkSends(t)[n].arg) >= 1
               /\ Len(chunkSends(t)[n].arg) <= 4000
          /\ concatArgs(chunksSent(t)) = SubSeq(text, 1, reach)
          /\ (t.pc = "done" /\ ~threw(t)) => concatArgs(chunksSent(t)) = text

C15_Witness ==
  \E h \in Handlers :
    LET t == turns[h]
    IN  /\ t.pc = "done" /\ ~threw(t)
        /\ Len(t.finalReply) = 2 * 4000 + 1
        /\ Len(chunksSent(t)) = 3
        /\ Len(chunksSent(t)[1].arg) = 4000
        /\ Len(chunksSent(t)[3].arg) = 1
        /\ concatArgs(chunksSent(t)) = t.finalReply

\* C16: a successful upsert over an existing row keeps, field by field (name,
\* gender, age bracket), the value of the row where the argument is null and
\* takes the value of the argument where it is not; with no row yet, the row
\* written has the fields of the argument; the rows of the other senders do
\* not change.
upserted(h) ==
  /\ turns[h].pc \in {"name_save", "gender_save"}
  /\ turns'[h].pc \notin {"name_save", "gender_save", "apology_send"}
kept(given, old, new) == IF given = Null THEN new = old ELSE new = given

C16_Coalesce ==
  [][ \A h \in Handlers :
        upserted(h) =>
          LET id   == turns[h].msg.from
              data == turns[h].data
              old  == users[id]
              new  == users'[id]
          IN  /\ new # Undefined
              /\ \A other \in Ids \ {id} : users'[other] = users[other]
              /\ IF old = Undefined
                 THEN /\ new.name = data.name
                      /\ new.gender = data.gender
                      /\ new.age_bracket = data.ageBracket
                 ELSE /\ kept(data.name, old.name, new.name)
                      /\ kept(data.gender, old.gender, new.gender)
                      /\ kept(data.ageBracket, old.age_bracket, new.age_bracket)
    ]_vars

C16_Witness ==
  \E h \in Handlers :
    /\ turns[h].pc = "ack_send"
    /\ turns[h].data = [name |-> Null, gender |-> "male", ageBracket |-> Null]
    /\ users[turns[h].msg.from].name = "Amy"
    /\ users[turns[h].msg.from].gender = "male"
    /\ users[turns[h].msg.from].age_bracket = "teen"

\* C18: in every step, whichever handler takes it and whatever other turns of
\* the sender are suspended, the session state of every sender stays where it
\* is or moves forward along absent, awaiting_name, awaiting_gender, active:
\* an entry is never removed, never set back, and active stays active.
rank(state) ==
  CASE state = Null -> 0
    [] state = "awaiting_name" -> 1
    [] state = "awaiting_gender" -> 2
    [] state = "active" -> 3

C18_Monotonic ==
  [][ \A id \in Ids : rank(userStates'[id]) >= rank(userStates[id]) ]_vars

\* A turn that found awaiting_name is suspended before its transition while
\* another turn of the same sender has moved the session to awaiting_gender.
C18_Witness ==
  \E h, k \in Handlers :
    /\ h # k
    /\ inFlight(turns[h]) /\ inFlight(turns[k])
    /\ turns[h].msg.from = turns[k].msg.from
    /\ turns[h].entry = "awaiting_name" /\ turns[h].pc = "ack_send"
    /\ userStates[turns[h].msg.from] = "awaiting_gender"

\* C19: a turn whose profile upsert failed is an onboarding turn that makes
\* no transition and writes no profile row: no step of it changes the session
\* state or the row of its sender, and, no other turn of the sender running
\* meanwhile, the session state stays the one the turn found, so that the
\* next message of the sender takes the same branch.
C19_UpsertFailureKeepsState ==
  [][ \A h \in Handlers :
        LET t  == turns'[h]
        IN  (started(t) /\ happened(t, "saveUserProfile", FALSE)) =>
              /\ t.entry \in {"awaiting_name", "awaiting_gender"}
              /\ events(t, "userStates") = <<>>
              /\ Len(events(t, "saveUserProfile")) = 1
              /\ t.solo => userStates'[t.msg.from] = t.entry
              /\ actor(h) => /\ users'[t.msg.from] = users[t.msg.from]
                             /\ userStates'[t.msg.from] = userStates[t.msg.from]
    ]_vars

C19_Witness ==
  \E h \in Handlers :
    LET t == turns[h]
    IN  /\ t.pc = "done" /\ t.solo
        /\ t.entry = "awaiting_gender"
        /\ happened(t, "saveUserProfile", FALSE)
        /\ userStates[t.msg.from] = "awaiting_gender"
        /\ users[t.msg.from] = Undefined

\* C20: for every sender whose session state is active the table users has a
\* row: the upsert of the turn that made the session active had succeeded.
C20_ActiveHasProfile ==
  \A id \in Ids : userStates[id] = "active" => users[id] # Undefined /\ users[id].activated

\* A session has just become active, after a failure earlier in the
\* behaviour, and the row of its sender is there.
C20_Witness ==
  \E h \in Handlers :
    LET t == turns[h]
    IN  /\ t.pc = "done" /\ nFail >= 1 /\ t.trace # <<>>
        /\ t.trace[Len(t.trace)] = Ev("userStates", "active", TRUE)
        /\ userStates[t.msg.from] = "active"
        /\ users[t.msg.from] # Undefined
        /\ users[t.msg.from].name = t.data.name

====
